---- MODULE Spec2Model ----
(***************************************************************************)
(* The iterative gene classifier of anvio/alonsclassifier.py               *)
(* (AlonsClassifier.get_gene_classes and the functions it calls).          *)
(*                                                                         *)
(* Numbers.  The code computes in floating point over real-valued          *)
(* coverages.  Here a coverage is a small natural number, a configured     *)
(* threshold is a rational <<num, den>> (den > 0), a mean is a rational,   *)
(* and a standard deviation is a surd <<rad, den>> standing for            *)
(* sqrt(rad)/den.  Every comparison the code makes between such numbers is *)
(* decided exactly, by integer arithmetic.  The loss, a sum of square      *)
(* roots, is held in fixed point: units of 1/Scale, every adjusted         *)
(* standard deviation rounded down.                                        *)
(***************************************************************************)
EXTENDS Integers, Sequences, FiniteSets, TLC

\* ------------------------------------------------------------------ bounds
NumGenes == 2
NumSamples == 2
MaxIter == 3
Precision == 4

\* ------------------------------------------------------------------ inputs
Genes == 1 .. NumGenes
SampleSets == {1 .. n : n \in 0 .. NumSamples}
CoverageValues == {0, 1, 2}
Alphas == {<<1, 2>>}
Betas == {<<0, 1>>, <<1, 2>>}
Gammas == {<<0, 1>>, <<2, 1>>}
Etas == {<<1, 2>>}

\* --------------------------------------------------------------- arithmetic
RECURSIVE Pow2(_)
Pow2(n) == IF n = 0 THEN 1 ELSE 2 * Pow2(n - 1)

Scale == Pow2(Precision)

Abs(x) == IF x < 0 THEN -x ELSE x

Sign(x) == IF x > 0 THEN 1 ELSE IF x < 0 THEN -1 ELSE 0

RECURSIVE Gcd(_, _)
Gcd(a, b) == IF b = 0 THEN a ELSE Gcd(b, a % b)

Lcm(a, b) == (a \div Gcd(a, b)) * b

RECURSIVE SumF(_, _)
SumF(f, S) ==
    IF S = {} THEN 0
    ELSE LET x == CHOOSE y \in S : TRUE
         IN  f[x] + SumF(f, S \ {x})

RECURSIVE LcmF(_, _)
LcmF(f, S) ==
    IF S = {} THEN 1
    ELSE LET x == CHOOSE y \in S : TRUE
         IN  Lcm(f[x], LcmF(f, S \ {x}))

\* the largest k in lo .. hi - 1 with k * k <= n, by bisection (lo * lo <= n < hi * hi)
RECURSIVE ISqrtIn(_, _, _)
ISqrtIn(n, lo, hi) ==
    IF hi - lo <= 1 THEN lo
    ELSE LET mid == (lo + hi) \div 2
         IN  IF mid * mid <= n THEN ISqrtIn(n, mid, hi) ELSE ISqrtIn(n, lo, mid)

\* floor of the square root of n >= 0, n < 2^30
ISqrt(n) == ISqrtIn(n, 0, 32768)

\* sign of L - c * sqrt(rad), for integers L, c and rad >= 0
SignSurdDiff(L, c, rad) ==
    LET sL == Sign(L)
        sR == IF rad = 0 THEN 0 ELSE Sign(c)
    IN  IF sL # sR THEN (IF sL > sR THEN 1 ELSE -1)
        ELSE IF sL = 0 THEN 0
        ELSE IF sL = 1 THEN Sign(L * L - c * c * rad)
        ELSE Sign(c * c * rad - L * L)

ZeroSurd == <<0, 1>>

\* sqrt(rad)/den < q
SurdLess(sd, q) == SignSurdDiff(q[1] * sd[2], q[2], sd[1]) = 1

\* sqrt(rad)/den in units of 1/Scale, rounded down
SurdFixed(sd) == ISqrt((Scale * Scale * sd[1]) \div (sd[2] * sd[2]))

\* q in units of 1/Scale, rounded down
RatFixed(q) == (q[1] * Scale) \div q[2]

\* np.mean of a family of integers xs (a function over its index set)
np_mean(xs) == <<SumF(xs, DOMAIN xs), Cardinality(DOMAIN xs)>>

\* np.std (population standard deviation) of a family of integers:
\* sqrt(n * sum(x^2) - sum(x)^2) / n
np_std(xs) ==
    LET n == Cardinality(DOMAIN xs)
        S == SumF(xs, DOMAIN xs)
        Q == SumF([i \in DOMAIN xs |-> xs[i] * xs[i]], DOMAIN xs)
    IN  <<n * Q - S * S, n>>

\* np.std of a non-empty family of rationals rs
np_std_ratios(rs) ==
    LET I == DOMAIN rs
        m == Cardinality(I)
        B == LcmF([i \in I |-> rs[i][2]], I)
        A == [i \in I |-> rs[i][1] * (B \div rs[i][2])]
        S == SumF(A, I)
        Q == SumF([i \in I |-> A[i] * A[i]], I)
    IN  <<m * Q - S * S, m * B>>

\* ------------------------------------------------------ sample statistics
\* func is the name of the function applied: "np.mean" or "np.std"
apply_func_to_genes_in_sample(d, smp, func, list_of_genes) ==
    LET l == IF list_of_genes = {} THEN DOMAIN d ELSE list_of_genes
    IN  [s \in smp |->
            LET xs == [g \in l |-> d[g][s]]
            IN  IF func = "np.mean" THEN np_mean(xs) ELSE np_std(xs)]

get_mean_coverage_in_samples(d, smp, list_of_genes) ==
    IF smp = {} THEN 0
    ELSE apply_func_to_genes_in_sample(d, smp, "np.mean", list_of_genes)

get_std_in_samples(d, smp, list_of_genes) ==
    apply_func_to_genes_in_sample(d, smp, "np.std", list_of_genes)

\* -------------------------------------------------------- detection model
\* sign of cov - (mean - gamma * std)
SignAboveThreshold(cov, mean, std, g) ==
    SignSurdDiff((cov * mean[2] - mean[1]) * g[2] * std[2], -(g[1] * mean[2]), std[1])

\* sign of mean - gamma * std
SignThreshold(mean, std, g) ==
    SignSurdDiff(mean[1] * g[2] * std[2], g[1] * mean[2], std[1])

\* as ExceedsMax0Threshold, with the max(0, .) of line 101 left out
ExceedsThresholdOnly(cov, mean, std, g) ==
    SignAboveThreshold(cov, mean, std, g) = 1

\* data[gene_id][sample] > max(0, mean[sample] - gamma * std[sample])
ExceedsMax0Threshold(cov, mean, std, g) ==
    IF SignThreshold(mean, std, g) <= 0 THEN cov > 0
    ELSE SignAboveThreshold(cov, mean, std, g) = 1

get_detection_of_genes(d, smp, mean, std, g) ==
    [gene_id \in DOMAIN d |->
        LET flags == [s \in smp |-> ExceedsMax0Threshold(d[gene_id][s], mean[s], std[s], g)]
        IN  [number_of_detections |-> Cardinality({s \in smp : flags[s]}),
             det |-> flags]]

\* the print of lines 107-110 happens
non_zero_non_detections(d, smp, mean, std, g) ==
    \E gene_id \in DOMAIN d : \E s \in smp :
        /\ d[gene_id][s] > 0
        /\ SignAboveThreshold(d[gene_id][s], mean[s], std[s], g) = -1

get_detection_of_genome_in_samples(dog, smp, a, genes_to_consider) ==
    LET gtc == IF genes_to_consider = {} THEN DOMAIN dog ELSE genes_to_consider
    IN  [sample_id \in smp |->
            LET number_of_detected_genes_in_sample ==
                    Cardinality({gene_id \in gtc : dog[gene_id].det[sample_id]})
            IN  [detection |->
                    number_of_detected_genes_in_sample * a[2] > a[1] * Cardinality(gtc)]]

\* ---------------------------------------------------- adjusted variability
get_adjusted_std_for_gene_id(d, gene_id, smp, mean, dog) ==
    IF smp = {} THEN ZeroSurd
    ELSE LET samples_with_gene ==
                 {s \in smp : dog[gene_id].det[s] /\ mean[s][1] > 0}
         IN  IF samples_with_gene = {} THEN ZeroSurd
             ELSE np_std_ratios([s \in samples_with_gene |->
                                    <<d[gene_id][s] * mean[s][2], mean[s][1]>>])

get_adjusted_stds(d, smp, mean, dog) ==
    [gene_id \in DOMAIN d |-> get_adjusted_std_for_gene_id(d, gene_id, smp, mean, dog)]

\* ------------------------------------------------ specificity & class rules
\* as get_taxon_specificity, undefined only for a gene detected nowhere
get_taxon_specificity_zero_only(adj, dog, b) ==
    [gene_id \in DOMAIN adj |->
        IF dog[gene_id].number_of_detections = 0 THEN "NaN"
        ELSE IF SurdLess(adj[gene_id], b) THEN "TS"
        ELSE "TNS"]

get_taxon_specificity(adj, dog, b) ==
    [gene_id \in DOMAIN adj |->
        IF dog[gene_id].number_of_detections <= 1 THEN "NaN"
        ELSE IF SurdLess(adj[gene_id], b) THEN "TS"
        ELSE "TNS"]

\* as get_loss_function_value, with beta added for TNS genes only
get_loss_function_value_tns_only(spec, adj, b) ==
    SumF([gene_id \in DOMAIN spec |->
             IF spec[gene_id] = "TS" THEN SurdFixed(adj[gene_id])
             ELSE IF spec[gene_id] = "TNS" THEN RatFixed(b)
             ELSE 0],
         DOMAIN spec)

get_loss_function_value(spec, adj, b) ==
    SumF([gene_id \in DOMAIN spec |->
             IF spec[gene_id] = "TS" THEN SurdFixed(adj[gene_id]) ELSE RatFixed(b)],
         DOMAIN spec)

get_number_of_detections_for_gene(dog, gene_id, smp) ==
    Cardinality({sample_id \in smp : dog[gene_id].det[sample_id]})

\* as get_core_accessory_info, with <= for the < of line 200
get_core_accessory_info_le(dog, gene_id, swg, e) ==
    IF dog[gene_id].number_of_detections = 0 THEN "NaN"
    ELSE IF get_number_of_detections_for_gene(dog, gene_id, swg) * e[2]
                <= e[1] * Cardinality(swg)
    THEN "accessory"
    ELSE "core"

get_core_accessory_info(dog, gene_id, swg, e) ==
    IF dog[gene_id].number_of_detections = 0 THEN "NaN"
    ELSE IF get_number_of_detections_for_gene(dog, gene_id, swg) * e[2]
                < e[1] * Cardinality(swg)
    THEN "accessory"
    ELSE "core"

\* the value standing for exit(1): no class is returned
Exit == "exit(1)"

\* as get_gene_class, with the inner else branches returning the accessory class
get_gene_class_no_inner_check(spec, coa) ==
    IF spec = "NaN" \/ coa = "NaN" THEN "NaN"
    ELSE IF spec = "TS" THEN (IF coa = "core" THEN "TSC" ELSE "TSA")
    ELSE IF spec = "TNS" THEN (IF coa = "core" THEN "TNC" ELSE "TNA")
    ELSE Exit

get_gene_class(spec, coa) ==
    IF spec = "NaN" \/ coa = "NaN" THEN "NaN"
    ELSE IF spec = "TS" THEN
        (IF coa = "core" THEN "TSC"
         ELSE IF coa = "accessory" THEN "TSA"
         ELSE Exit)
    ELSE IF spec = "TNS" THEN
        (IF coa = "core" THEN "TNC"
         ELSE IF coa = "accessory" THEN "TNA"
         ELSE Exit)
    ELSE Exit

\* one gene's record, lines 281-296
gene_record(dog, spec, gene_id, swg, e) ==
    LET coa == get_core_accessory_info(dog, gene_id, swg, e)
        dps == Cardinality({sample_id \in swg : dog[gene_id].det[sample_id]})
    IN  [gene_specificity |-> spec[gene_id],
         number_of_detections |-> dog[gene_id].number_of_detections,
         core_or_accessory |-> coa,
         gene_class |-> get_gene_class(spec[gene_id], coa),
         detection_in_positive_samples |-> dps,
         portion_detected |-> IF dps = 0 THEN <<0, 1>> ELSE <<dps, Cardinality(swg)>>]

\* what one pass through the loop body computes, lines 261-296
loop_body(d, smp, a, b, g, e, tsg, tsc) ==
    LET mean == get_mean_coverage_in_samples(d, smp, tsg)
        std == get_std_in_samples(d, smp, tsg)
        dog == get_detection_of_genes(d, smp, mean, std, g)
        dgs == get_detection_of_genome_in_samples(dog, smp, a, tsc)
        swg == {sample_id \in smp : dgs[sample_id].detection}
        adj == get_adjusted_stds(d, smp, mean, dog)
        spec == get_taxon_specificity(adj, dog, b)
    IN  [mean |-> mean, std |-> std, dog |-> dog,
         informed |-> non_zero_non_detections(d, smp, mean, std, g),
         dgs |-> dgs, swg |-> swg, adj |-> adj, spec |-> spec,
         new_loss |-> get_loss_function_value(spec, adj, b),
         gci |-> [gene_id \in DOMAIN d |-> gene_record(dog, spec, gene_id, swg, e)]]

\* as stopping_test, with the comparison of line 275 turned round
stopping_test_flipped(old_loss, new_loss, b) ==
    /\ old_loss # <<>>
    /\ Abs(new_loss - old_loss[1]) * b[2] > 2 * b[1] * Scale

\* as stopping_test, with <= for the < of line 275
stopping_test_le(old_loss, new_loss, b) ==
    /\ old_loss # <<>>
    /\ Abs(new_loss - old_loss[1]) * b[2] <= 2 * b[1] * Scale

\* the stopping test of lines 274-276; a loss is <<>> (None) or <<value>>
stopping_test(old_loss, new_loss, b) ==
    /\ old_loss # <<>>
    /\ Abs(new_loss - old_loss[1]) * b[2] < 2 * b[1] * Scale

\* as next_taxon_specific_genes, with the update of lines 300-301 in force
next_taxon_specific_genes_updated(tsg, gci) ==
    {gene_id \in DOMAIN gci : gci[gene_id].gene_class = "TSC"
                                \/ gci[gene_id].gene_class = "TSA"}

\* the gene set the sample statistics are computed over in the next
\* iteration: line 253 sets it, and its update (lines 300-301) is commented out
next_taxon_specific_genes(tsg, gci) == tsg

\* line 298-299
next_TSC_genes(gci) == {gene_id \in DOMAIN gci : gci[gene_id].gene_class = "TSC"}

\* the reference set of the final genome detection, lines 303-304
final_reference_genes(tsc) == tsc

\* ------------------------------------------------------------ the program
VARIABLES
    data, samples, alpha, beta, gamma, eta,
    pc, iteration,
    taxon_specific_genes, TSC_genes, converged, loss, gene_class_information,
    mean_coverage_of_TS_in_samples, std_of_TS_in_samples,
    detection_of_genes, informed,
    detection_of_genome_in_samples, samples_with_genome,
    adjusted_stds, taxon_specificity,
    final_detection_of_genome_in_samples,
    gc_args, gc_pc, gc_result

inputs == <<data, samples, alpha, beta, gamma, eta>>

locals == <<mean_coverage_of_TS_in_samples, std_of_TS_in_samples,
            detection_of_genes, informed,
            detection_of_genome_in_samples, samples_with_genome,
            adjusted_stds, taxon_specificity>>

loop_state == <<taxon_specific_genes, TSC_genes, converged, loss, gene_class_information>>

gc_vars == <<gc_args, gc_pc, gc_result>>

vars == <<inputs, pc, iteration, loop_state, locals,
          final_detection_of_genome_in_samples, gc_vars>>

\* the labels get_gene_class may be handed: any strings
Labels == {"NaN", "TS", "TNS", "core", "accessory", "TSC", "TSA", "TNC", "TNA", "None"}

\* lines 253-258: the state on entering the while loop
InitLoop ==
    /\ pc = "loop"
    /\ iteration = 0
    /\ taxon_specific_genes = DOMAIN data
    /\ converged = FALSE
    /\ loss = <<>>
    /\ TSC_genes = DOMAIN data
    /\ gene_class_information = <<>>
    /\ mean_coverage_of_TS_in_samples = <<>>
    /\ std_of_TS_in_samples = <<>>
    /\ detection_of_genes = <<>>
    /\ informed = FALSE
    /\ detection_of_genome_in_samples = <<>>
    /\ samples_with_genome = {}
    /\ adjusted_stds = <<>>
    /\ taxon_specificity = <<>>
    /\ final_detection_of_genome_in_samples = <<>>

GcIdle ==
    /\ gc_args = <<"NaN", "NaN">>
    /\ gc_pc = "idle"
    /\ gc_result = "NaN"

Init ==
    /\ samples \in SampleSets
    /\ data \in [Genes -> [samples -> CoverageValues]]
    /\ alpha \in Alphas
    /\ beta \in Betas
    /\ gamma \in Gammas
    /\ eta \in Etas
    /\ InitLoop
    /\ GcIdle

\* one iteration of the while loop, lines 259-302
Step ==
    /\ pc = "loop"
    /\ ~converged
    /\ iteration < MaxIter
    /\ \E r \in {loop_body(data, samples, alpha, beta, gamma, eta,
                           taxon_specific_genes, TSC_genes)} :
           /\ mean_coverage_of_TS_in_samples' = r.mean
           /\ std_of_TS_in_samples' = r.std
           /\ detection_of_genes' = r.dog
           /\ informed' = r.informed
           /\ detection_of_genome_in_samples' = r.dgs
           /\ samples_with_genome' = r.swg
           /\ adjusted_stds' = r.adj
           /\ taxon_specificity' = r.spec
           /\ converged' = stopping_test(loss, r.new_loss, beta)
           /\ loss' = <<r.new_loss>>
           /\ gene_class_information' = r.gci
           /\ TSC_genes' = next_TSC_genes(r.gci)
           /\ taxon_specific_genes' = next_taxon_specific_genes(taxon_specific_genes, r.gci)
           /\ pc' = IF \E gene_id \in DOMAIN r.gci : r.gci[gene_id].gene_class = Exit
                    THEN "exited" ELSE "loop"
    /\ iteration' = iteration + 1
    /\ UNCHANGED <<inputs, final_detection_of_genome_in_samples, gc_vars>>

\* lines 303-305: the loop has ended
Return ==
    /\ pc = "loop"
    /\ converged
    /\ final_detection_of_genome_in_samples' =
           get_detection_of_genome_in_samples(detection_of_genes, samples, alpha,
                                              final_reference_genes(TSC_genes))
    /\ pc' = "returned"
    /\ UNCHANGED <<inputs, iteration, loop_state, locals, gc_vars>>

Next == Step \/ Return

Spec == Init /\ [][Next]_vars

\* control moves on: what a step of the program does to pc and iteration.
\* Every step of Next is such a step, and under Spec every such step is a step
\* of Next.
Runs ==
    /\ pc = "loop"
    /\ \/ /\ ~converged
          /\ iteration < MaxIter
          /\ iteration' = iteration + 1
          /\ pc' \in {"loop", "exited"}
       \/ /\ converged
          /\ iteration' = iteration
          /\ pc' = "returned"

\* the scheduling of a sequential program: while it can run, it does
FairSpec == Spec /\ WF_<<pc, iteration>>(Runs)

\* ------------------------------ get_gene_classes on larger presence tables
\* lines 55-59: data with two more genes
MoreGenes == 1 .. (NumGenes + 2)

\* lines 55-59: one more sample, all of them present
MoreSamples == 1 .. (NumSamples + 1)

\* lines 55-59: coverages of a gene that is absent from or present in a sample
PresenceValues == {0, 1}

\* lines 250-258: as Init, on the larger tables
InitMore ==
    /\ samples = MoreSamples
    /\ data \in [MoreGenes -> [samples -> PresenceValues]]
    /\ alpha \in Alphas
    /\ beta \in Betas
    /\ gamma \in Gammas
    /\ eta \in Etas
    /\ InitLoop
    /\ GcIdle

MoreSpec == InitMore /\ [][Next]_vars

\* ------------------------------------------------------------- classify
\* line 37: an argument that was not given is None
None == <<>>

\* line 51: isinstance(self.gamma, float)
isinstance_float(g) == g /= None

\* lines 49-52: raises ConfigError unless gamma is a float
sanity_check(g) == IF ~isinstance_float(g) THEN "ConfigError" ELSE "ok"

\* lines 101-102: gamma * std_in_samples[sample] raises TypeError when gamma
\* is None; it is evaluated for the first gene and the first sample, so
\* only when there is a gene and a sample
detection_raises(d, smp, g) == g = None /\ DOMAIN d /= {} /\ smp /= {}

\* line 43: gamma is whatever the arguments hold
ClassifyGammas == Gammas \cup {None}

\* the state on entering classify: the arguments are stored (lines 33-46),
\* the data file is what line 327 will read, nothing has been computed
InitClassify ==
    /\ samples \in SampleSets
    /\ data \in [Genes -> [samples -> CoverageValues]]
    /\ alpha \in Alphas
    /\ beta \in Betas
    /\ gamma \in ClassifyGammas
    /\ eta \in Etas
    /\ pc = "classify"
    /\ iteration = 0
    /\ taxon_specific_genes = {}
    /\ converged = FALSE
    /\ loss = <<>>
    /\ TSC_genes = {}
    /\ gene_class_information = <<>>
    /\ mean_coverage_of_TS_in_samples = <<>>
    /\ std_of_TS_in_samples = <<>>
    /\ detection_of_genes = <<>>
    /\ informed = FALSE
    /\ detection_of_genome_in_samples = <<>>
    /\ samples_with_genome = {}
    /\ adjusted_stds = <<>>
    /\ taxon_specificity = <<>>
    /\ final_detection_of_genome_in_samples = <<>>
    /\ GcIdle

\* lines 327-328 and 253-258: classify reads the data and calls
\* get_gene_classes, which sets up the loop; sanity_check is not called
Classify ==
    /\ pc = "classify"
    /\ pc' = "loop"
    /\ taxon_specific_genes' = DOMAIN data
    /\ TSC_genes' = DOMAIN data
    /\ converged' = FALSE
    /\ loss' = <<>>
    /\ UNCHANGED <<inputs, iteration, gene_class_information, locals,
                   final_detection_of_genome_in_samples, gc_vars>>

\* an iteration whose arithmetic on gamma is defined
ClassifyStep ==
    /\ ~detection_raises(data, samples, gamma)
    /\ Step

\* lines 259-266 and 101-102: the first iteration computes the mean and the
\* std and then fails in get_detection_of_genes; the TypeError leaves
\* get_gene_classes and classify
StepRaises ==
    /\ pc = "loop"
    /\ ~converged
    /\ iteration < MaxIter
    /\ detection_raises(data, samples, gamma)
    /\ pc' = "TypeError"
    /\ UNCHANGED <<inputs, iteration, loop_state, locals,
                   final_detection_of_genome_in_samples, gc_vars>>

\* lines 330-354: the two tables are written
Store ==
    /\ pc = "returned"
    /\ pc' = "stored"
    /\ UNCHANGED <<inputs, iteration, loop_state, locals,
                   final_detection_of_genome_in_samples, gc_vars>>

NextClassify == Classify \/ ClassifyStep \/ StepRaises \/ Return \/ Store

ClassifySpec == InitClassify /\ [][NextClassify]_vars

\* ------------------------------------------- get_gene_class on any labels
InitGeneClass ==
    /\ samples = {}
    /\ data = [g \in Genes |-> <<>>]
    /\ alpha = <<1, 2>>
    /\ beta = <<1, 2>>
    /\ gamma = <<1, 1>>
    /\ eta = <<1, 2>>
    /\ InitLoop
    /\ gc_args \in Labels \X Labels
    /\ gc_pc = "call"
    /\ gc_result = "NaN"

CallGetGeneClass ==
    /\ gc_pc = "call"
    /\ LET r == get_gene_class(gc_args[1], gc_args[2])
       IN  /\ gc_result' = r
           /\ gc_pc' = IF r = Exit THEN "exited" ELSE "returned"
    /\ UNCHANGED <<inputs, pc, iteration, loop_state, locals,
                   final_detection_of_genome_in_samples, gc_args>>

NextGeneClass == CallGetGeneClass

GeneClassSpec == InitGeneClass /\ [][NextGeneClass]_vars

\* ================================================================ claims
\* the genes whose combined class is TSC in the records as they stand
TSC_of_records ==
    {gene_id \in DOMAIN gene_class_information :
        gene_class_information[gene_id].gene_class = "TSC"}

\* |loss' - loss| < 2 * beta, for a step that had a previous loss
SmallChange == Abs(loss'[1] - loss[1]) * beta[2] < 2 * beta[1] * Scale

\* C1: with beta > 0 the while loop of get_gene_classes ends (converged is
\* set) and the function returns.  Checked under FairSpec.
C1_LoopTerminates == (beta[1] > 0) => <>(converged /\ pc = "returned")

C1_Witness == beta[1] > 0 /\ converged /\ pc = "returned" /\ samples # {}

\* C2: converged is set only by a step that is at least the second to
\* compute a loss and that finds |new_loss - loss| < 2 * beta; a first step,
\* and a step with |new_loss - loss| >= 2 * beta, leaves the loop running.
C2_StoppingRule ==
    [][Step =>
        /\ converged' => (iteration' >= 2 /\ loss # <<>> /\ SmallChange)
        /\ (loss = <<>> \/ ~SmallChange) => (~converged' /\ pc' = "loop")]_vars

C2_Witness == converged /\ iteration = 2 /\ loss # <<>> /\ pc = "loop"

\* C3: in every step after the first, mean and standard deviation are
\* computed over the TSC set the previous step produced, and the step ends by
\* recomputing that set as the genes classed TSC.
C3_StatsOverPreviousTSC ==
    [][(Step /\ iteration >= 1) =>
        /\ mean_coverage_of_TS_in_samples' =
               get_mean_coverage_in_samples(data, samples, TSC_genes)
        /\ std_of_TS_in_samples' = get_std_in_samples(data, samples, TSC_genes)
        /\ TSC_genes' = TSC_of_records']_vars

\* C4: in the returned final map a sample is detected iff the number of
\* final-TSC genes detected in it exceeds alpha times the size of the final
\* TSC set, also when that set is empty.
C4_FinalMapOverFinalTSC ==
    pc = "returned" =>
        \A s \in samples :
            final_detection_of_genome_in_samples[s].detection <=>
                Cardinality({g \in TSC_of_records : detection_of_genes[g].det[s]}) * alpha[2]
                    > alpha[1] * Cardinality(TSC_of_records)

\* C5: a gene is marked detected in a sample iff its coverage is above
\* max(0, mean - gamma * std) for the statistics of the current iteration.
\* (gamma >= 0: cov > mean - gamma * std iff cov > mean, or
\* (gamma * std)^2 > (mean - cov)^2.)
C5_DetectionRule ==
    iteration >= 1 =>
        \A g \in Genes : \A s \in samples :
            LET cov == data[g][s]
                m == mean_coverage_of_TS_in_samples[s]
                sd == std_of_TS_in_samples[s]
                D == (m[1] - cov * m[2]) * gamma[2] * sd[2]
                R == gamma[1] * m[2]
            IN  detection_of_genes[g].det[s] <=>
                    (cov > 0 /\ (D < 0 \/ R * R * sd[1] > D * D))

C5_Witness ==
    /\ iteration >= 1
    /\ \E g \in Genes : \E s \in samples :
          /\ detection_of_genes[g].det[s]
          /\ SignThreshold(mean_coverage_of_TS_in_samples[s], std_of_TS_in_samples[s], gamma) = 1
    /\ \E g \in Genes : \E s \in samples :
          /\ data[g][s] = 0
          /\ ~detection_of_genes[g].det[s]
          /\ SignThreshold(mean_coverage_of_TS_in_samples[s], std_of_TS_in_samples[s], gamma) = -1

\* C6: for the reference set handed to get_detection_of_genome_in_samples, of
\* size n, a sample is detected iff more than alpha * n of its genes are
\* detected in the sample.  (Stated of the call inside the loop, whose
\* reference set is the TSC set of the previous step.)
C6_GenomeDetectionRule ==
    [][Step =>
        \A s \in samples :
            detection_of_genome_in_samples'[s].detection <=>
                Cardinality({g \in TSC_genes : detection_of_genes'[g].det[s]}) * alpha[2]
                    > alpha[1] * Cardinality(TSC_genes)]_vars

\* C7: specificity is undefined for a gene detected in at most one sample;
\* otherwise TS iff adjusted variability < beta, else TNS.
C7_SpecificityRule ==
    iteration >= 1 =>
        \A g \in Genes :
            LET a == adjusted_stds[g]
                below == a[1] * beta[2] * beta[2] < beta[1] * beta[1] * a[2] * a[2]
            IN  taxon_specificity[g] =
                    IF detection_of_genes[g].number_of_detections <= 1 THEN "NaN"
                    ELSE IF below THEN "TS" ELSE "TNS"

C7_Witness ==
    /\ iteration >= 1
    /\ \E g \in Genes : /\ detection_of_genes[g].number_of_detections = 1
                        /\ taxon_specificity[g] = "NaN"
    /\ \E g \in Genes : /\ taxon_specificity[g] = "TNS"
                        /\ adjusted_stds[g][1] > 0

\* C8: core/accessory is undefined for a gene detected nowhere; otherwise
\* accessory iff its detections in genome-positive samples are fewer than
\* eta times the number of such samples, else core; with no genome-positive
\* sample every gene detected somewhere is core.  Checked under MoreSpec,
\* whose tables are large enough for accessory genes.
C8_CoreAccessoryRule ==
    iteration >= 1 =>
        \A g \in DOMAIN data :
            LET n == Cardinality({s \in samples_with_genome : detection_of_genes[g].det[s]})
                label == gene_class_information[g].core_or_accessory
            IN  /\ label =
                       IF detection_of_genes[g].number_of_detections = 0 THEN "NaN"
                       ELSE IF n * eta[2] < eta[1] * Cardinality(samples_with_genome)
                            THEN "accessory" ELSE "core"
                /\ (samples_with_genome = {}
                        /\ detection_of_genes[g].number_of_detections >= 1)
                       => label = "core"

\* some samples are genome-positive; one gene detected somewhere is
\* accessory and one is core with exactly eta times their number of
\* detections in them
C8_Witness ==
    /\ iteration >= 1
    /\ samples_with_genome # {}
    /\ \E g \in DOMAIN data :
           /\ detection_of_genes[g].number_of_detections >= 1
           /\ gene_class_information[g].core_or_accessory = "accessory"
    /\ \E g \in DOMAIN data :
           /\ gene_class_information[g].detection_in_positive_samples * eta[2]
                  = eta[1] * Cardinality(samples_with_genome)
           /\ gene_class_information[g].core_or_accessory = "core"

\* C9: get_gene_class returns undefined iff either label is undefined;
\* otherwise the class of the 2x2 table, and for a label outside its domain
\* the process exits without a class.  Checked under GeneClassSpec.
C9_GeneClassTable ==
    gc_pc # "call" =>
        LET spec == gc_args[1]
            coa == gc_args[2]
        IN  /\ (gc_pc = "returned" /\ gc_result = "NaN") <=> (spec = "NaN" \/ coa = "NaN")
            /\ (spec = "TS" /\ coa = "core") => (gc_pc = "returned" /\ gc_result = "TSC")
            /\ (spec = "TS" /\ coa = "accessory") => (gc_pc = "returned" /\ gc_result = "TSA")
            /\ (spec = "TNS" /\ coa = "core") => (gc_pc = "returned" /\ gc_result = "TNC")
            /\ (spec = "TNS" /\ coa = "accessory") => (gc_pc = "returned" /\ gc_result = "TNA")
            /\ (/\ spec # "NaN"
                /\ coa # "NaN"
                /\ (spec \notin {"TS", "TNS"} \/ coa \notin {"core", "accessory"}))
               => (gc_pc = "exited" /\ gc_result \notin {"NaN", "TSC", "TSA", "TNC", "TNA"})

C9_Witness == gc_pc = "exited" /\ gc_args[1] = "TS" /\ gc_args[2] = "None"

\* C10: the loss is the sum over all genes of the adjusted variability of
\* the TS genes and of beta for every other gene (undefined ones included),
\* and is not negative when beta >= 0.
C10_LossIsSum ==
    loss # <<>> =>
        LET TS == {g \in Genes : taxon_specificity[g] = "TS"}
        IN  /\ loss[1] = SumF([g \in TS |-> SurdFixed(adjusted_stds[g])], TS)
                           + Cardinality(Genes \ TS) * RatFixed(beta)
            /\ beta[1] >= 0 => loss[1] >= 0

C10_Witness ==
    /\ loss # <<>>
    /\ beta[1] > 0
    /\ \E g \in Genes : taxon_specificity[g] = "TS" /\ adjusted_stds[g][1] > 0
    /\ \E g \in Genes : taxon_specificity[g] = "NaN"

\* C11: the informational condition is raised whenever some gene has
\* positive coverage in a sample and is marked not detected there (coverage
\* at or below max(0, mean - gamma * std)), and the detection counts are
\* the numbers of true flags whether or not it is raised.
C11_InformedOnPositiveNonDetection ==
    iteration >= 1 =>
        /\ (\E g \in Genes : \E s \in samples :
               data[g][s] > 0 /\ ~detection_of_genes[g].det[s]) => informed
        /\ \A g \in Genes :
               detection_of_genes[g].number_of_detections =
                   Cardinality({s \in samples : detection_of_genes[g].det[s]})

\* C12: a run whose gamma is not a real number ends in the configuration
\* error: it never enters the convergence loop, never ends in another
\* failure, never returns and never writes output.
C12_NonRealGammaIsConfigError ==
    sanity_check(gamma) = "ConfigError" => pc \in {"classify", "ConfigError"}

\* C13: every iteration after the first recomputes the same per-sample mean
\* and standard deviation, the same detection flags and counts, the same
\* adjusted variabilities, the same specificity labels and the same loss as
\* the iteration before it; and when beta > 0 the loop is stopped by exactly
\* the second iteration.
C13_SameStatisticsEveryIteration ==
    [][iteration' = iteration + 1 =>
        /\ iteration >= 1 =>
               /\ mean_coverage_of_TS_in_samples' = mean_coverage_of_TS_in_samples
               /\ std_of_TS_in_samples' = std_of_TS_in_samples
               /\ detection_of_genes' = detection_of_genes
               /\ adjusted_stds' = adjusted_stds
               /\ taxon_specificity' = taxon_specificity
               /\ loss' = loss
        /\ beta[1] > 0 => (converged' <=> iteration' = 2)]_vars

C13_Witness ==
    /\ iteration = 2
    /\ converged
    /\ beta[1] > 0
    /\ loss[1] > 0
    /\ TSC_genes \notin {{}, Genes}

\* the samples marked detected in the returned genome-detection map
returned_positive_samples ==
    {s \in samples : final_detection_of_genome_in_samples[s].detection}

\* C14: on return, every gene's detection_in_positive_samples is the number
\* of samples marked detected in the returned map in which the gene is
\* detected, and its portion_detected is that number divided by the number
\* of samples marked detected in the returned map, 0 when there is none.
C14_RecordsAgreeWithReturnedMap ==
    pc = "returned" =>
        \A gene_id \in DOMAIN data :
            LET n == Cardinality({s \in returned_positive_samples :
                                     detection_of_genes[gene_id].det[s]})
                portion == gene_class_information[gene_id].portion_detected
            IN  /\ gene_class_information[gene_id].detection_in_positive_samples = n
                /\ IF returned_positive_samples = {}
                   THEN portion[1] = 0
                   ELSE portion[1] * Cardinality(returned_positive_samples)
                            = n * portion[2]

====
